---- MODULE Spec2Model ----
(***************************************************************************)
(* Model of backend/rag_engine.py (RAGEngine: BM25 + embedding retrieval)  *)
(* and of the /index handler of backend/app.py that drives it.             *)
(*                                                                         *)
(* Strings are sequences of one-character strings.  Floating-point scores  *)
(* are fixed-point integers: BM25 and cosine scores in thousandths, fused  *)
(* scores (0.6*L + 0.4*S) in ten-thousandths.                              *)
(***************************************************************************)
EXTENDS Integers, Sequences, FiniteSets, TLC

VARIABLES corpus,          \* self._corpus
          bm25,            \* self._bm25 (None, or the index built from a tokenized corpus)
          doc_embeddings,  \* self._doc_embeddings
          embedder,        \* self._embedder is not None
          last,            \* the last completed call: arguments and outcome
          ipc, ilocal,     \* a thread running index(): position and locals
          qpc, qlocal      \* a thread running query(): position and locals

engine == <<corpus, bm25, doc_embeddings, embedder>>
threads == <<ipc, ilocal, qpc, qlocal>>
vars == <<corpus, bm25, doc_embeddings, embedder, last, ipc, ilocal, qpc, qlocal>>

(***************************************************************************)
(* Bounds of the model.                                                    *)
(***************************************************************************)
MaxDocs == 3      \* documents the corpus may hold
MaxBatch == 2     \* documents of one index() call
MaxTopK == 4      \* top_k ranges over -MaxNegTopK .. MaxTopK
MaxNegTopK == 2

(***************************************************************************)
(* Inputs: document texts, query texts, batches, top_k values.             *)
(***************************************************************************)
DocTexts == { <<>>, <<" ">>, <<"a">>, <<"b", " ", "A", " ", "a", "b", " ", "A">> }
QueryTexts == { <<>>, <<"a">>, <<"b", " ", "A">> }
TopKs == (0 - MaxNegTopK) .. MaxTopK

RECURSIVE SeqsUpTo(_, _)
SeqsUpTo(S, n) ==
    IF n = 0 THEN { <<>> }
    ELSE LET shorter == SeqsUpTo(S, n - 1)
         IN  shorter \cup { Append(s, x) : s \in shorter, x \in S }

Batches == SeqsUpTo(DocTexts, MaxBatch)

Range(s) == { s[i] : i \in DOMAIN s }

(***************************************************************************)
(* Python built-ins used by the engine.                                    *)
(***************************************************************************)
\* str.split(): the maximal runs of non-whitespace characters, in order.
RECURSIVE SplitFrom(_, _, _, _)
SplitFrom(s, i, cur, acc) ==
    IF i > Len(s) THEN (IF cur = <<>> THEN acc ELSE Append(acc, cur))
    ELSE IF s[i] = " "
         THEN SplitFrom(s, i + 1, <<>>, IF cur = <<>> THEN acc ELSE Append(acc, cur))
         ELSE SplitFrom(s, i + 1, Append(cur, s[i]), acc)

Split(s) == SplitFrom(s, 1, <<>>, <<>>)

\* str.lower()
LowerChar(c) == IF c = "A" THEN "a" ELSE c
Lower(t) == [i \in DOMAIN t |-> LowerChar(t[i])]

\* ord(): the code point of a character.
Ord(c) == CASE c = " " -> 32
            [] c = "A" -> 65
            [] c = "a" -> 97
            [] c = "b" -> 98

\* s < t on str: lexicographic by code point.
RECURSIVE StrLessFrom(_, _, _)
StrLessFrom(s, t, i) ==
    IF i > Len(s) THEN i <= Len(t)
    ELSE IF i > Len(t) THEN FALSE
    ELSE IF s[i] # t[i] THEN Ord(s[i]) < Ord(t[i])
    ELSE StrLessFrom(s, t, i + 1)

StrLess(s, t) == StrLessFrom(s, t, 1)

\* sorted(a set of str): ascending.
RECURSIVE SortedStrs(_)
SortedStrs(S) ==
    IF S = {} THEN <<>>
    ELSE LET m == CHOOSE x \in S : \A y \in S \ {x} : StrLess(x, y)
         IN  <<m>> \o SortedStrs(S \ {m})

\* str(n) for n >= 0: the decimal digits.
DigitChar(d) == <<"0", "1", "2", "3", "4", "5", "6", "7", "8", "9">>[d + 1]

RECURSIVE Str(_)
Str(n) == IF n < 10 THEN <<DigitChar(n)>> ELSE Append(Str(n \div 10), DigitChar(n % 10))

\* seq[:k]
SliceTo(seq, k) ==
    LET n == Len(seq)
        stop == IF k >= 0 THEN (IF k < n THEN k ELSE n)
                ELSE (IF n + k > 0 THEN n + k ELSE 0)
    IN  SubSeq(seq, 1, stop)

\* floor(sqrt(n))
RECURSIVE ISqrtIn(_, _, _)
ISqrtIn(n, lo, hi) ==
    IF lo >= hi THEN lo
    ELSE LET mid == (lo + hi + 1) \div 2
         IN  IF mid * mid <= n THEN ISqrtIn(n, mid, hi) ELSE ISqrtIn(n, lo, mid - 1)

ISqrt(n) == ISqrtIn(n, 0, IF n < 46340 THEN n ELSE 46340)

RECURSIVE SumSeq(_)
SumSeq(s) == IF s = <<>> THEN 0 ELSE Head(s) + SumSeq(Tail(s))

(***************************************************************************)
(* rank_bm25.BM25Okapi (k1 = 1.5, b = 0.75, epsilon = 0.25), as the engine *)
(* uses it.  A built index is the tokenized corpus it was built from; the  *)
(* statistics the library keeps are functions of it.                       *)
(***************************************************************************)
NoBM25 == [some |-> FALSE, docs |-> <<>>]

\* Words of the tokenized corpus: the keys of BM25.idf.
Words(tok) == UNION { Range(tok[i]) : i \in DOMAIN tok }

\* nd[w]: the number of documents containing w.
DocFreq(tok, w) == Cardinality({ i \in DOMAIN tok : w \in Range(tok[i]) })

\* doc_freqs[d][w]: occurrences of w in document d.
TermFreq(doc, w) == Cardinality({ j \in DOMAIN doc : doc[j] = w })

\* num_doc: the total number of tokens.
TotalLen(tok) == SumSeq([i \in DOMAIN tok |-> Len(tok[i])])

\* BM25Okapi(tok) raises ZeroDivisionError: avgdl = num_doc / corpus_size with
\* no document, average_idf = idf_sum / len(idf) with no word.
BM25Raises(tok) == Len(tok) = 0 \/ Words(tok) = {}

\* 1000 * ln(k), for the odd k that 2 * (N - n) + 1 and 2 * n + 1 take.
LnMilli(k) == CASE k = 1 -> 0
                [] k = 3 -> 1099
                [] k = 5 -> 1609
                [] k = 7 -> 1946
                [] k = 9 -> 2197
                [] k = 11 -> 2398
                [] k = 13 -> 2565

\* math.log(corpus_size - freq + 0.5) - math.log(freq + 0.5), in thousandths.
RawIdf(tok, w) ==
    LET n == DocFreq(tok, w)
    IN  LnMilli(2 * (Len(tok) - n) + 1) - LnMilli(2 * n + 1)

RECURSIVE IdfSum(_, _)
IdfSum(tok, W) ==
    IF W = {} THEN 0
    ELSE LET w == CHOOSE x \in W : TRUE
         IN  RawIdf(tok, w) + IdfSum(tok, W \ {w})

AverageIdf(tok) == IdfSum(tok, Words(tok)) \div Cardinality(Words(tok))

\* idf[w]: a negative idf is replaced by epsilon * average_idf.
Idf(tok, w) ==
    IF RawIdf(tok, w) < 0 THEN AverageIdf(tok) \div 4 ELSE RawIdf(tok, w)

\* One query token's contribution to document d (1-based):
\*   idf * f * (k1 + 1) / (f + k1 * (1 - b + b * dl / avgdl))
\* with avgdl = total / N, numerator and denominator multiplied by 8 * total.
TermScore(tok, d, q) ==
    IF q \notin Words(tok) THEN 0
    ELSE LET f == TermFreq(tok[d], q)
             total == TotalLen(tok)
             dl == Len(tok[d])
         IN  (Idf(tok, q) * 20 * f * total)
                 \div (8 * f * total + 3 * total + 9 * dl * Len(tok))

\* BM25Okapi.get_scores(query_tokens): one score per indexed document.
GetScores(b, qtokens) ==
    [d \in DOMAIN b.docs |->
        SumSeq([j \in DOMAIN qtokens |-> TermScore(b.docs, d, qtokens[j])])]

\* [doc.split() for doc in self._corpus]
Tokenize(c) == [i \in DOMAIN c |-> Split(c[i])]

BM25Okapi(tok) == [some |-> TRUE, docs |-> tok]

(***************************************************************************)
(* The encoder (FlagModel.encode): a deterministic map from a text to a    *)
(* vector, here the counts of its a/A and of its b characters.             *)
(***************************************************************************)
Encode(text) ==
    << Cardinality({ i \in DOMAIN text : LowerChar(text[i]) = "a" }),
       Cardinality({ i \in DOMAIN text : text[i] = "b" }) >>

EncodeAll(c) == [i \in DOMAIN c |-> Encode(c[i])]

\* sqrt(sum(value * value for value in v)), in thousandths.
Norm(v) == ISqrt(SumSeq([i \in DOMAIN v |-> v[i] * v[i]]) * 1000000)

Dot(q, d) ==
    LET n == IF Len(q) < Len(d) THEN Len(q) ELSE Len(d)
    IN  SumSeq([i \in 1 .. n |-> q[i] * d[i]])

\* The truth value of a list of floats: non-empty.
Truthy(seq) == Len(seq) > 0

\* langdetect.detect(doc), with the engine's fallback to "unknown" when it
\* raises (a text with no letters).
Detect(doc) ==
    IF Split(doc) = <<>> THEN "unknown"
    ELSE IF "b" \in Range(doc) THEN "de" ELSE "en"

(***************************************************************************)
(* RAGEngine.query, step by step.  Indices are 1-based here; doc_id is the *)
(* 0-based index as the code prints it.                                    *)
(***************************************************************************)
LexWeight == 6    \* 0.6, in tenths
SemWeight == 4    \* 0.4, in tenths

\* Mutant of QueryReturnsEarly: the guard of line 54 is missing.
QueryNeverReturnsEarly(c, b) == FALSE

\* if not self._corpus or not self._bm25: return []
QueryReturnsEarly(c, b) == Len(c) = 0 \/ ~b.some

\* embedding_scores = [0.0 for _ in self._corpus]
ZeroScores(c) == [i \in DOMAIN c |-> 0]

\* if self._embedder and self._doc_embeddings: the encoder is called.
QueryEncodes(e, embs) == e /\ Truthy(embs)

\* dot_product / (norm_query * norm_doc), in thousandths; norm_query "or 1.0".
Cosine(qv, dv) ==
    LET nq == IF Norm(qv) = 0 THEN 1000 ELSE Norm(qv)
    IN  (Dot(qv, dv) * 1000000) \div ((nq * Norm(dv)) \div 1000)

\* The loop over enumerate(self._doc_embeddings): a vector of zero norm is
\* skipped, any other assigns embedding_scores[idx], an IndexError when idx is
\* beyond the list.
SemanticRaises(es, embs) ==
    \E i \in DOMAIN embs : Norm(embs[i]) # 0 /\ i > Len(es)

SemanticScores(es, qv, embs) ==
    [i \in DOMAIN es |->
        IF i \in DOMAIN embs /\ Norm(embs[i]) # 0 THEN Cosine(qv, embs[i]) ELSE es[i]]

\* The sort key: (0.6 * bm25_scores[idx]) + (0.4 * embedding_scores[idx]),
\* in ten-thousandths.
Fused(bs, es, i) == LexWeight * bs[i] + SemWeight * es[i]

\* Mutant of InsertDesc: descending order got by reversing an ascending sort,
\* which puts the later of two equal keys first.
RECURSIVE InsertDescTiesReversed(_, _, _, _)
InsertDescTiesReversed(sorted, i, bs, es) ==
    IF sorted = <<>> THEN <<i>>
    ELSE IF Fused(bs, es, Head(sorted)) > Fused(bs, es, i)
         THEN <<Head(sorted)>> \o InsertDescTiesReversed(Tail(sorted), i, bs, es)
         ELSE <<i>> \o sorted

\* sorted(range(n), key, reverse=True): stable, so an index is placed after
\* every earlier index whose key is greater or equal.
RECURSIVE InsertDesc(_, _, _, _)
InsertDesc(sorted, i, bs, es) ==
    IF sorted = <<>> THEN <<i>>
    ELSE IF Fused(bs, es, Head(sorted)) >= Fused(bs, es, i)
         THEN <<Head(sorted)>> \o InsertDesc(Tail(sorted), i, bs, es)
         ELSE <<i>> \o sorted

RECURSIVE SortedDesc(_, _, _)
SortedDesc(n, bs, es) ==
    IF n = 0 THEN <<>>
    ELSE InsertDesc(SortedDesc(n - 1, bs, es), n, bs, es)

\* The key raises IndexError for an index beyond either score list.
RankRaises(n, bs, es) == n > Len(bs) \/ n > Len(es)

\* ranked_indices = sorted(range(len(self._corpus)), ...)[:top_k]
RankedIndices(n, bs, es, top_k) == SliceTo(SortedDesc(n, bs, es), top_k)

\* Mutant of Highlights: the document's tokens are compared as they are,
\* not lowercased.
HighlightsCaseSensitive(doc, qtokens) ==
    LET token_set == { Lower(t) : t \in Range(qtokens) }
    IN  SortedStrs({ t \in Range(Split(doc)) : t \in token_set })

\* sorted({token for token in doc_tokens if token.lower() in token_set})
Highlights(doc, qtokens) ==
    LET token_set == { Lower(t) : t \in Range(qtokens) }
    IN  SortedStrs({ t \in Range(Split(doc)) : Lower(t) \in token_set })

\* The reported score: float(bm25_scores[idx]).
ChunkScore(bs, es, i) == bs[i]

\* Mutant of Chunk: doc_id counts from one.
ChunkOneBased(c, bs, es, qtokens, i) ==
    [doc_id |-> Str(i),
     text |-> c[i],
     score |-> ChunkScore(bs, es, i),
     language |-> Detect(c[i]),
     highlights |-> Highlights(c[i], qtokens)]

\* One RetrievedChunk, for index i.
Chunk(c, bs, es, qtokens, i) ==
    [doc_id |-> Str(i - 1),
     text |-> c[i],
     score |-> ChunkScore(bs, es, i),
     language |-> Detect(c[i]),
     highlights |-> Highlights(c[i], qtokens)]

Chunks(c, bs, es, qtokens, ranked) ==
    [k \in DOMAIN ranked |-> Chunk(c, bs, es, qtokens, ranked[k])]

\* Lines 74-98: rank, truncate, build the chunks.
QueryRanked(c, bs, es, qtokens, top_k, enc) ==
    IF RankRaises(Len(c), bs, es)
    THEN [raised |-> "IndexError", results |-> <<>>, encoded |-> enc]
    ELSE [raised |-> "",
          results |-> Chunks(c, bs, es, qtokens, RankedIndices(Len(c), bs, es, top_k)),
          encoded |-> enc]

\* Lines 58-73: the semantic scores, then the ranking.
QueryScored(c, e, embs, text, top_k, encOK, qtokens, bs) ==
    IF QueryEncodes(e, embs) /\ ~encOK
    THEN [raised |-> "EncoderError", results |-> <<>>, encoded |-> TRUE]
    ELSE IF QueryEncodes(e, embs) /\ SemanticRaises(ZeroScores(c), embs)
    THEN [raised |-> "IndexError", results |-> <<>>, encoded |-> TRUE]
    ELSE IF QueryEncodes(e, embs)
    THEN QueryRanked(c, bs, SemanticScores(ZeroScores(c), Encode(text), embs),
                     qtokens, top_k, TRUE)
    ELSE QueryRanked(c, bs, ZeroScores(c), qtokens, top_k, FALSE)

\* self._bm25.get_scores on None raises AttributeError.
GetScoresRaises(b) == ~b.some

\* The whole of query(text, top_k) on an engine no other thread touches.
\* encOK: whether the encoder's call, if made, succeeds.
QueryOutcome(c, b, e, embs, text, top_k, encOK) ==
    IF QueryReturnsEarly(c, b)
    THEN [raised |-> "", results |-> <<>>, encoded |-> FALSE]
    ELSE IF GetScoresRaises(b)
    THEN [raised |-> "AttributeError", results |-> <<>>, encoded |-> FALSE]
    ELSE QueryScored(c, e, embs, text, top_k, encOK, Split(text),
                     GetScores(b, Split(text)))

(***************************************************************************)
(* RAGEngine.index                                                         *)
(***************************************************************************)
\* for doc in documents: self._corpus.append(doc)
AppendAll(c, docs) == c \o docs

\* The whole of index(documents) on an engine no other thread touches: the
\* fields as they are when the call ends, and the exception that ended it.
IndexOutcome(c, b, e, embs, docs, encOK) ==
    LET c2 == AppendAll(c, docs)
        tok == Tokenize(c2)
    IN  IF BM25Raises(tok)
        THEN [corpus |-> c2, bm25 |-> b, embs |-> embs, raised |-> "ZeroDivisionError"]
        ELSE IF e /\ ~encOK
        THEN [corpus |-> c2, bm25 |-> BM25Okapi(tok), embs |-> embs,
              raised |-> "EncoderError"]
        ELSE [corpus |-> c2, bm25 |-> BM25Okapi(tok),
              embs |-> IF e THEN EncodeAll(c2) ELSE embs, raised |-> ""]

(***************************************************************************)
(* Values returned to the caller.                                          *)
(***************************************************************************)
PyNone == [tag |-> "None", n |-> 0]
PyList == [tag |-> "list", n |-> 0]           \* the list itself is last.results
PyRaise == [tag |-> "raise", n |-> 0]
CountDict(k) == [tag |-> "count", n |-> k]    \* {"count": k}

\* index() ends without a return statement.
IndexReturn(docs) == PyNone

\* Mutant of IndexDocumentsReturn: the size of the corpus is reported.
IndexDocumentsReturnCorpusSize(docs) == CountDict(Len(corpus) + Len(docs))

\* index_documents: return {"count": len(payload.documents)}
IndexDocumentsReturn(docs) == CountDict(Len(docs))

\* No call is awaiting its caller.
NoCall == [op |-> "none", repeat |-> FALSE, text |-> <<>>, top_k |-> 0, docs |-> <<>>,
           encFailed |-> FALSE, raised |-> "", ret |-> PyNone,
           response |-> PyNone, results |-> <<>>]

\* The locals of a thread that is in no call.
NoIndexLocals == [docs |-> <<>>, k |-> 0]
NoQueryLocals == [text |-> <<>>, top_k |-> 0, bs |-> <<>>, es |-> <<>>, qv |-> <<>>,
                  encoded |-> FALSE, embLen |-> 0, rankLen |-> 0,
                  raised |-> "", results |-> <<>>]

\* The outcomes of the encoder's call, where there is an encoder to call.
EncoderOutcomes == IF embedder THEN BOOLEAN ELSE {TRUE}

(***************************************************************************)
(* The engine of app.py: _engine = RAGEngine(), with or without FlagModel. *)
(***************************************************************************)
Init ==
    /\ corpus = <<>>
    /\ bm25 = NoBM25
    /\ doc_embeddings = <<>>
    /\ embedder \in BOOLEAN
    /\ last = NoCall
    /\ ipc = "idle"
    /\ ilocal = NoIndexLocals
    /\ qpc = "idle"
    /\ qlocal = NoQueryLocals

(***************************************************************************)
(* One caller at a time: a call runs to its end, its outcome is in `last`  *)
(* until the caller takes it.                                              *)
(***************************************************************************)
\* POST /index: index_documents(payload), which calls _engine.index.  An
\* exception of index() leaves the handler too.
IndexDocuments(docs, encOK) ==
    /\ last.op = "none"
    /\ Len(corpus) + Len(docs) <= MaxDocs
    /\ \E out \in { IndexOutcome(corpus, bm25, embedder, doc_embeddings, docs, encOK) } :
        /\ corpus' = out.corpus
        /\ bm25' = out.bm25
        /\ doc_embeddings' = out.embs
        /\ last' = [NoCall EXCEPT
                      !.op = "index", !.docs = docs,
                      !.encFailed = (out.raised = "EncoderError"),
                      !.raised = out.raised,
                      !.ret = IF out.raised = "" THEN IndexReturn(docs) ELSE PyRaise,
                      !.response = IF out.raised = "" THEN IndexDocumentsReturn(docs)
                                   ELSE PyRaise]
        /\ UNCHANGED <<embedder, threads>>

\* Mutant of QueryCall: the query vector is appended to the shared
\* self._doc_embeddings.
QueryCallKeepingVector(text, top_k, encOK, again) ==
    \E out \in { QueryOutcome(corpus, bm25, embedder, doc_embeddings, text, top_k, encOK) } :
        /\ last' = [NoCall EXCEPT
                      !.op = "query", !.repeat = again, !.text = text, !.top_k = top_k,
                      !.encFailed = (out.raised = "EncoderError"),
                      !.raised = out.raised,
                      !.ret = IF out.raised = "" THEN PyList ELSE PyRaise,
                      !.results = out.results]
        /\ doc_embeddings' = IF out.encoded /\ out.raised = ""
                             THEN Append(doc_embeddings, Encode(text))
                             ELSE doc_embeddings
        /\ UNCHANGED <<corpus, bm25, embedder, threads>>

\* engine.query(text, top_k), as run_query calls it.
QueryCall(text, top_k, encOK, again) ==
    \E out \in { QueryOutcome(corpus, bm25, embedder, doc_embeddings, text, top_k, encOK) } :
        /\ last' = [NoCall EXCEPT
                      !.op = "query", !.repeat = again, !.text = text, !.top_k = top_k,
                      !.encFailed = (out.raised = "EncoderError"),
                      !.raised = out.raised,
                      !.ret = IF out.raised = "" THEN PyList ELSE PyRaise,
                      !.results = out.results]
        /\ UNCHANGED <<engine, threads>>

Query(text, top_k, encOK) ==
    /\ last.op = "none"
    /\ QueryCall(text, top_k, encOK, FALSE)

\* The same query again, right after its first answer.
RepeatQuery(encOK) ==
    /\ last.op = "query"
    /\ QueryCall(last.text, last.top_k, encOK, TRUE)

\* The caller takes the outcome of its call.
Return ==
    /\ last.op # "none"
    /\ last' = NoCall
    /\ UNCHANGED <<engine, threads>>

DoIndexDocuments == \E docs \in Batches, encOK \in EncoderOutcomes : IndexDocuments(docs, encOK)
DoQuery == \E text \in QueryTexts, top_k \in TopKs, encOK \in EncoderOutcomes : Query(text, top_k, encOK)
DoRepeatQuery == \E encOK \in EncoderOutcomes : RepeatQuery(encOK)

Next == DoIndexDocuments \/ DoQuery \/ DoRepeatQuery \/ Return

Spec == Init /\ [][Next]_vars

(***************************************************************************)
(* The /index and /query handlers are plain `def`s, which FastAPI runs on  *)
(* worker threads: one thread in index() and one in query() interleave on  *)
(* the shared _engine at each read and write of its fields.  The encoder   *)
(* does not fail here.                                                     *)
(***************************************************************************)
ConcTopKs == { 1, MaxTopK }

\* index(documents) is entered.
IStart(docs) ==
    /\ ipc = "idle"
    /\ Len(corpus) + Len(docs) <= MaxDocs
    /\ ilocal' = [docs |-> docs, k |-> 1]
    /\ ipc' = IF Len(docs) = 0 THEN "build" ELSE "append"
    /\ UNCHANGED <<engine, last, qpc, qlocal>>

\* self._corpus.append(doc), once per document.
IAppend ==
    /\ ipc = "append"
    /\ corpus' = Append(corpus, ilocal.docs[ilocal.k])
    /\ ilocal' = [ilocal EXCEPT !.k = @ + 1]
    /\ ipc' = IF ilocal.k = Len(ilocal.docs) THEN "build" ELSE "append"
    /\ UNCHANGED <<bm25, doc_embeddings, embedder, last, qpc, qlocal>>

\* self._bm25 = BM25Okapi([doc.split() for doc in self._corpus]); an
\* exception ends the call.
IBuild ==
    /\ ipc = "build"
    /\ IF BM25Raises(Tokenize(corpus))
       THEN /\ ipc' = "idle"
            /\ ilocal' = NoIndexLocals
            /\ UNCHANGED bm25
       ELSE /\ bm25' = BM25Okapi(Tokenize(corpus))
            /\ ipc' = IF embedder THEN "encode" ELSE "idle"
            /\ ilocal' = IF embedder THEN ilocal ELSE NoIndexLocals
    /\ UNCHANGED <<corpus, doc_embeddings, embedder, last, qpc, qlocal>>

\* self._doc_embeddings = the encoding of self._corpus
IEncode ==
    /\ ipc = "encode"
    /\ doc_embeddings' = EncodeAll(corpus)
    /\ ipc' = "idle"
    /\ ilocal' = NoIndexLocals
    /\ UNCHANGED <<corpus, bm25, embedder, last, qpc, qlocal>>

\* query(text, top_k) is entered: line 54.
QStart(text, top_k) ==
    /\ qpc = "idle"
    /\ IF QueryReturnsEarly(corpus, bm25)
       THEN /\ qpc' = "done"
            /\ qlocal' = [NoQueryLocals EXCEPT !.text = text, !.top_k = top_k]
       ELSE /\ qpc' = "scores"
            /\ qlocal' = [NoQueryLocals EXCEPT !.text = text, !.top_k = top_k]
    /\ UNCHANGED <<engine, last, ipc, ilocal>>

\* bm25_scores = self._bm25.get_scores(query_tokens)
QGetScores ==
    /\ qpc = "scores"
    /\ qlocal' = [qlocal EXCEPT !.bs = GetScores(bm25, Split(qlocal.text))]
    /\ qpc' = "zeros"
    /\ UNCHANGED <<engine, last, ipc, ilocal>>

\* embedding_scores = [0.0 for _ in self._corpus]
QZeros ==
    /\ qpc = "zeros"
    /\ qlocal' = [qlocal EXCEPT !.es = ZeroScores(corpus)]
    /\ qpc' = "encode"
    /\ UNCHANGED <<engine, last, ipc, ilocal>>

\* Lines 60-65: the query vector, if there are document vectors.
QEncode ==
    /\ qpc = "encode"
    /\ qlocal' = IF QueryEncodes(embedder, doc_embeddings)
                 THEN [qlocal EXCEPT !.qv = Encode(qlocal.text), !.encoded = TRUE]
                 ELSE qlocal
    /\ qpc' = "semantic"
    /\ UNCHANGED <<engine, last, ipc, ilocal>>

\* Lines 66-73: the loop over self._doc_embeddings as it is now.
QSemantic ==
    /\ qpc = "semantic"
    /\ IF ~Truthy(qlocal.qv)
       THEN /\ qlocal' = qlocal
            /\ qpc' = "rank"
       ELSE IF SemanticRaises(qlocal.es, doc_embeddings)
       THEN /\ qlocal' = [qlocal EXCEPT !.embLen = Len(doc_embeddings),
                                        !.raised = "IndexError"]
            /\ qpc' = "done"
       ELSE /\ qlocal' = [qlocal EXCEPT
                            !.embLen = Len(doc_embeddings),
                            !.es = SemanticScores(qlocal.es, qlocal.qv, doc_embeddings)]
            /\ qpc' = "rank"
    /\ UNCHANGED <<engine, last, ipc, ilocal>>

\* Lines 74-98: the ranking over range(len(self._corpus)) and the chunks.
QRank ==
    /\ qpc = "rank"
    /\ \E out \in { QueryRanked(corpus, qlocal.bs, qlocal.es, Split(qlocal.text),
                                qlocal.top_k, qlocal.encoded) } :
          qlocal' = [qlocal EXCEPT !.rankLen = Len(corpus),
                                   !.raised = out.raised,
                                   !.results = out.results]
    /\ qpc' = "done"
    /\ UNCHANGED <<engine, last, ipc, ilocal>>

\* The caller takes the outcome.
QReturn ==
    /\ qpc = "done"
    /\ qpc' = "idle"
    /\ qlocal' = NoQueryLocals
    /\ UNCHANGED <<engine, last, ipc, ilocal>>

DoIStart == \E docs \in Batches : IStart(docs)
DoQStart == \E text \in QueryTexts, top_k \in ConcTopKs : QStart(text, top_k)

ConcNext ==
    \/ DoIStart \/ IAppend \/ IBuild \/ IEncode
    \/ DoQStart \/ QGetScores \/ QZeros \/ QEncode \/ QSemantic \/ QRank \/ QReturn

ConcSpec == Init /\ [][ConcNext]_vars

(***************************************************************************)
(* The claims.                                                             *)
(***************************************************************************)
\* What the engine's fields give for the query in `last`.
LexScores == GetScores(bm25, Split(last.text))
SemScores ==
    IF QueryEncodes(embedder, doc_embeddings)
    THEN SemanticScores(ZeroScores(corpus), Encode(last.text), doc_embeddings)
    ELSE ZeroScores(corpus)

\* The corpus position (1-based) a result's doc_id names, 0 if it names none.
DocIndex(r) ==
    IF \E i \in DOMAIN corpus : Str(i - 1) = r.doc_id
    THEN CHOOSE i \in DOMAIN corpus : Str(i - 1) = r.doc_id
    ELSE 0

QueryAnswered == last.op = "query" /\ last.raised = ""

IsPrefix(a, b) == Len(a) <= Len(b) /\ SubSeq(b, 1, Len(a)) = a

\* C1: a query that runs while index() runs sees one corpus state: the BM25
\* scores, the embedding scores and vectors and the corpus it ranks all have
\* the same length, and it does not fail on an index out of range.
C1_QuerySeesOneSnapshot ==
    qpc = "done" =>
        /\ qlocal.raised # "IndexError"
        /\ qlocal.rankLen > 0 =>
              /\ Len(qlocal.bs) = qlocal.rankLen
              /\ Len(qlocal.es) = qlocal.rankLen
              /\ qlocal.encoded => qlocal.embLen = qlocal.rankLen

\* C2: a query with top_k <= 0 that returns, returns the empty list.
C2_NonPositiveTopKReturnsEmpty ==
    (QueryAnswered /\ last.top_k <= 0) => last.results = <<>>

\* C3: a query whose encoder call fails does not raise and returns the
\* ranking computed with semantic score 0 for every document.
C3_EncoderFailureFallsBack ==
    (last.op = "query" /\ last.encFailed) =>
        /\ last.raised = ""
        /\ last.results = QueryOutcome(corpus, bm25, FALSE, doc_embeddings,
                                       last.text, last.top_k, TRUE).results

\* C4: the score of every result is its document's fused score 0.6*L + 0.4*S
\* (scores are in thousandths, Fused in ten-thousandths).
C4_ScoreIsFusedScore ==
    QueryAnswered =>
        \A k \in DOMAIN last.results :
            10 * last.results[k].score
                = Fused(LexScores, SemScores, DocIndex(last.results[k]))

\* C5: once an index() call has ended, however it ended, the lexical index
\* covers as many documents as the corpus holds, and with an encoder there
\* are as many embedding vectors.
C5_SnapshotLengthsAgree ==
    (last.op = "index" \/ Len(corpus) > 0) =>
        /\ Len(bm25.docs) = Len(corpus)
        /\ embedder => Len(doc_embeddings) = Len(corpus)

\* C6: results are in descending order of fused score, and of two results
\* with equal fused score the one with the smaller corpus index comes first.
C6_RankedByFusedScoreStable ==
    QueryAnswered =>
        \A k, m \in DOMAIN last.results :
            k < m =>
                LET i == DocIndex(last.results[k])
                    j == DocIndex(last.results[m])
                    fi == Fused(LexScores, SemScores, i)
                    fj == Fused(LexScores, SemScores, j)
                IN  fi > fj \/ (fi = fj /\ i < j)

\* C6 witness: three results, the first above the second, the last two tied.
C6_Witness ==
    /\ QueryAnswered
    /\ Len(last.results) = 3
    /\ Fused(LexScores, SemScores, DocIndex(last.results[1]))
         > Fused(LexScores, SemScores, DocIndex(last.results[2]))
    /\ Fused(LexScores, SemScores, DocIndex(last.results[2]))
         = Fused(LexScores, SemScores, DocIndex(last.results[3]))
    /\ DocIndex(last.results[1]) > DocIndex(last.results[2])

\* C7 as claimed: index(documents) returns the integer len(documents).
C7_IndexReturnsCount ==
    (last.op = "index" /\ last.raised = "") =>
        last.ret = [tag |-> "int", n |-> Len(last.docs)]

\* C7 as amended: an index() call that completes returns None, and the
\* /index handler answers {"count": n}, n being the length of the batch and
\* the number of documents the corpus grew by.
C7_HandlerReportsCount ==
    [][(last'.op = "index" /\ last'.raised = "") =>
          /\ last'.ret = PyNone
          /\ last'.response = CountDict(Len(last'.docs))
          /\ Len(corpus') = Len(corpus) + last'.response.n]_vars

\* C7 witness: a batch of two was indexed into a corpus that held one.
C7_Witness ==
    /\ last.op = "index"
    /\ last.raised = ""
    /\ Len(last.docs) = 2
    /\ Len(corpus) = 3
    /\ last.response = CountDict(2)

\* C8: while the corpus is empty (nothing was ever indexed), a query returns
\* the empty list and does not raise.
C8_EmptyEngineQueryReturnsEmpty ==
    (last.op = "query" /\ Len(corpus) = 0) =>
        (last.raised = "" /\ last.results = <<>>)

\* C8 witness: a non-empty query with top_k > 0 on the empty engine with an
\* encoder.
C8_Witness ==
    /\ last.op = "query"
    /\ corpus = <<>>
    /\ embedder
    /\ last.text # <<>>
    /\ last.top_k > 0
    /\ last.results = <<>>

\* C9: a query leaves corpus, lexical index and embeddings as they were, and
\* the same query asked again, the encoder behaving the same, gives the same
\* ordered results.
C9_QueryIsPureRead ==
    [][/\ last'.op = "query" => UNCHANGED <<corpus, bm25, doc_embeddings>>
       /\ (/\ last.op = "query"
           /\ last'.op = "query"
           /\ last'.text = last.text
           /\ last'.top_k = last.top_k
           /\ last'.encFailed = last.encFailed)
          => (last'.results = last.results /\ last'.raised = last.raised)]_vars

\* C9 witness: the answer to a repeated query, holding two results or more,
\* computed with the encoder.
C9_Witness ==
    /\ QueryAnswered
    /\ last.repeat
    /\ QueryEncodes(embedder, doc_embeddings)
    /\ Len(last.results) >= 2

\* C10: every step keeps the stored documents where they were, index()
\* appends its batch in input order, and every result carries the decimal
\* position of its document as doc_id and the stored text as text.
C10_AppendOnlyStableIds ==
    /\ [](last.op = "query" =>
            \A k \in DOMAIN last.results :
                \E i \in DOMAIN corpus :
                    /\ last.results[k].doc_id = Str(i - 1)
                    /\ last.results[k].text = corpus[i])
    /\ [][/\ IsPrefix(corpus, corpus')
          /\ last'.op = "index" => corpus' = corpus \o last'.docs
          /\ last'.op = "query" => corpus' = corpus]_vars

\* C10 witness: three results, the document at position 0 not ranked first.
C10_Witness ==
    /\ QueryAnswered
    /\ Len(corpus) = 3
    /\ Len(last.results) = 3
    /\ last.results[1].doc_id # Str(0)
    /\ corpus[1] # corpus[2]

\* C11: on a corpus of n > 0 documents a query with top_k > 0 returns the
\* first min(top_k, n) entries of the full ranking; with top_k >= n these are
\* n results that hold every document exactly once.
C11_TopKReturnsPrefixOfRanking ==
    (last.op = "query" /\ Len(corpus) > 0 /\ last.top_k > 0) =>
        /\ last.raised = ""
        /\ Len(last.results)
             = (IF last.top_k < Len(corpus) THEN last.top_k ELSE Len(corpus))
        /\ last.top_k >= Len(corpus) =>
              \A i \in DOMAIN corpus :
                  Cardinality({ k \in DOMAIN last.results :
                                  last.results[k].doc_id = Str(i - 1) }) = 1
        /\ bm25.some =>
              \A k \in DOMAIN last.results :
                  last.results[k].doc_id
                      = Str(SortedDesc(Len(corpus), LexScores, SemScores)[k] - 1)

\* C12: index() does not fail on any batch of one or more strings, empty and
\* whitespace-only ones included (the encoder working): it does not raise,
\* the batch is stored as given at the end of the corpus, and a corpus that
\* holds a document has a lexical index covering all of it.
C12_IndexAcceptsDegenerateInput ==
    (last.op = "index" /\ Len(last.docs) > 0 /\ ~last.encFailed) =>
        /\ last.raised = ""
        /\ IsPrefix(last.docs,
                    SubSeq(corpus, Len(corpus) - Len(last.docs) + 1, Len(corpus)))
        /\ Len(corpus) > 0 => (bm25.some /\ Len(bm25.docs) = Len(corpus))

\* C13: the highlights of every result are the document's tokens whose
\* lowercase form is the lowercase form of some query token (whole tokens),
\* each once, in ascending order; none for an empty query or document.
C13_HighlightsExactTokens ==
    last.op = "query" =>
        \A k \in DOMAIN last.results :
            LET h == last.results[k].highlights
                dt == Range(Split(last.results[k].text))
                qt == Range(Split(last.text))
            IN  /\ Range(h) = { t \in dt : \E q \in qt : Lower(t) = Lower(q) }
                /\ \A i, j \in DOMAIN h : i < j => StrLess(h[i], h[j])
                /\ (dt = {} \/ qt = {}) => h = <<>>

\* C13 witness: the query "b A" on the document "b A ab A": A (matched
\* twice, by lowercase) and b are highlighted, A first, ab is not; another
\* result has no highlight.
C13_Witness ==
    /\ QueryAnswered
    /\ last.text = <<"b", " ", "A">>
    /\ \E k \in DOMAIN last.results :
          /\ last.results[k].text = <<"b", " ", "A", " ", "a", "b", " ", "A">>
          /\ last.results[k].highlights = << <<"A">>, <<"b">> >>
    /\ \E k \in DOMAIN last.results : last.results[k].highlights = <<>>

====
